---- MODULE Spec2Model ----
(***************************************************************************)
(* Model of metaflow/plugins/aws/batch/batch_cli.py: the `step` command    *)
(* that encodes the input paths, backs off before a retry, submits one     *)
(* AWS Batch job, waits for it and synchronises the task metadata (Spec),  *)
(* and _execute_cmd behind the `list` and `kill` commands (CmdSpec).       *)
(*                                                                         *)
(* Strings are sequences of one-character strings.  A Python dict is a     *)
(* sequence of <<key, value>> pairs in insertion order (dicts keep         *)
(* insertion order and assigning an existing key keeps its position).      *)
(***************************************************************************)
EXTENDS Integers, Sequences, FiniteSets, TLC

(* ------------------------------ bounds --------------------------------- *)
\* longest input_paths string explored
MaxLen == 3
\* largest chunk ceiling explored; the code fixes the ceiling to 30 * 1024
\* (line 183) and the chunking is uniform in it, so the model runs the same
\* computation with every ceiling 1..MaxCeiling
MaxCeiling == 2
\* largest --retry-count explored
MaxRetry == 2
\* largest minutes_between_retries explored
MaxMinutes == 3

Alphabet == {"a", "b"}

(* ------------------------------ strings -------------------------------- *)
RECURSIVE StringsUpTo(_)
StringsUpTo(n) ==
    IF n = 0 THEN {<<>>}
    ELSE LET shorter == StringsUpTo(n - 1)
         IN  shorter \cup {Append(s, ch) : s \in {t \in shorter : Len(t) = n - 1}, ch \in Alphabet}

Min(a, b) == IF a < b THEN a ELSE b

\* Python slice s[i : j] with 0 <= i, clipped to the length of s
Slice(s, i, j) == SubSeq(s, i + 1, Min(j, Len(s)))

\* Python range(start, stop, step) for step > 0, as the sequence it iterates
RECURSIVE Range(_, _, _)
Range(start, stop, step) ==
    IF start >= stop THEN <<>>
    ELSE <<start>> \o Range(start + step, stop, step)

Digits == <<"0", "1", "2", "3", "4", "5", "6", "7", "8", "9">>

\* "%d" % k for k >= 0
RECURSIVE FormatD(_)
FormatD(k) ==
    IF k < 10 THEN <<Digits[k + 1]>>
    ELSE FormatD(k \div 10) \o <<Digits[(k % 10) + 1]>>

PREFIX == <<"M","E","T","A","F","L","O","W","_","I","N","P","U","T","_","P","A","T","H","S","_">>

\* "METAFLOW_INPUT_PATHS_%d" % k
PathsKey(k) == PREFIX \o FormatD(k)

(* ------------------------------- dicts --------------------------------- *)
DictKeys(d) == [k \in 1..Len(d) |-> d[k][1]]
DictKeySet(d) == {d[k][1] : k \in 1..Len(d)}
DictHas(d, key) == key \in DictKeySet(d)
DictGet(d, key) == d[CHOOSE k \in 1..Len(d) : d[k][1] = key][2]

\* d[key] = val
DictSet(d, key, val) ==
    IF DictHas(d, key)
    THEN [k \in 1..Len(d) |-> IF d[k][1] = key THEN <<key, val>> ELSE d[k]]
    ELSE Append(d, <<key, val>>)

\* d.update(other)
DictUpdateDropsOld(d, other) == IF other = <<>> THEN d ELSE other
RECURSIVE DictUpdate(_, _)
DictUpdate(d, other) ==
    IF other = <<>> THEN d
    ELSE DictUpdate(DictSet(d, Head(other)[1], Head(other)[2]), Tail(other))

(* --------------------------- Argument Encoder -------------------------- *)
\* one item of the dict comprehension: the key and the value built for i
SplitItemBadKey(s, i, max_size) ==
    <<PathsKey(i % max_size), Slice(s, i, i + max_size)>>
SplitItemShortSlice(s, i, max_size) ==
    <<PathsKey(i \div max_size), Slice(s, i, i + max_size - 1)>>
SplitItem(s, i, max_size) ==
    <<PathsKey(i \div max_size), Slice(s, i, i + max_size)>>

\* { key(i): value(i) for i in range(0, len(s), max_size) }
RECURSIVE SplitFold(_, _, _, _)
SplitFold(acc, is, s, max_size) ==
    IF is = <<>> THEN acc
    ELSE LET item == SplitItem(s, Head(is), max_size)
         IN  SplitFold(DictSet(acc, item[1], item[2]), Tail(is), s, max_size)

SplitVars(s, max_size) == SplitFold(<<>>, Range(0, Len(s), max_size), s, max_size)

\* "".join("${%s}" % k for k in keys)
RECURSIVE JoinPlaceholders(_)
JoinPlaceholders(keys) ==
    IF keys = <<>> THEN <<>>
    ELSE <<"$", "{">> \o Head(keys) \o <<"}">> \o JoinPlaceholders(Tail(keys))

\* concatenation of the values of a dict in the order of the mapping
RECURSIVE ConcatValues(_)
ConcatValues(d) ==
    IF d = <<>> THEN <<>> ELSE Head(d)[2] \o ConcatValues(Tail(d))

\* Variable substitution of the downstream process: every ${NAME} of the
\* expression is replaced by the value of NAME in the environment (empty when
\* unset); substituted text is not expanded again.
RECURSIVE IndexOf(_, _, _)
IndexOf(s, ch, from) ==
    IF from > Len(s) THEN 0
    ELSE IF s[from] = ch THEN from ELSE IndexOf(s, ch, from + 1)

RECURSIVE Expand(_, _)
Expand(expr, environ) ==
    IF expr = <<>> THEN <<>>
    ELSE IF Len(expr) >= 2 /\ expr[1] = "$" /\ expr[2] = "{" /\ IndexOf(expr, "}", 3) # 0
         THEN LET close == IndexOf(expr, "}", 3)
                  name  == SubSeq(expr, 3, close - 1)
                  value == IF DictHas(environ, name) THEN DictGet(environ, name) ELSE <<>>
              IN  value \o Expand(SubSeq(expr, close + 1, Len(expr)), environ)
         ELSE <<Head(expr)>> \o Expand(Tail(expr), environ)

(* ------------------------- retry backoff helpers ----------------------- *)
\* Python truthiness of the integer --retry-count (click default 0)
RetryTruthy(n) == n # 0

\* argument of time.sleep: minutes_between_retries * 60
SleepSecondsUnscaled(minutes) == minutes
SleepSeconds(minutes) == minutes * 60

(* ----------------------------- step inputs ----------------------------- *)
\* An optional value is <<>> (None / absent) or <<v>>.
FOO == <<"F", "O", "O">>

\* the 'vars' of the environment decorator that the flow may declare
DeclaredVarsChoices ==
    { <<>>,
      << <<FOO, <<"a">> >> >>,
      << <<PathsKey(0), <<"b">> >> >>,
      << <<FOO, <<"a">> >>, <<PathsKey(1), <<"b", "b">> >> >> }

\* node.decorators of the step, restricted to the two decorators step reads:
\* retry (with or without the minutes_between_retries attribute) and
\* environment (with its vars)
RetryDecoChoices ==
    { <<>>, <<[minutes_between_retries |-> <<>>]>> }
    \cup { <<[minutes_between_retries |-> <<m>>]>> : m \in 1..MaxMinutes }

EnvDecoChoices == { <<>> } \cup { <<[vars |-> d]>> : d \in DeclaredVarsChoices }

InputPathsChoices == { <<>> } \cup { <<s>> : s \in StringsUpTo(MaxLen) }

LaunchResults == {"ok", "Exception", "BaseException"}
WaitResults == {"ok", "BatchKilledException", "Exception", "BaseException"}

VARIABLES
    pc,                     \* position of the step command
    input_paths,            \* kwargs.get("input_paths") on entry (optional string)
    max_size,               \* chunk ceiling
    retry_count,            \* kwargs.get("retry_count", 0)
    node,                   \* ctx.obj.graph[step_name]: its decorators
    declared,               \* node as it was before the command ran
    split_vars,             \* dict of chunk variables, <<>> while None
    kwargs_input_paths,     \* kwargs["input_paths"] as put into step_cli
    minutes_between_retries,\* optional integer
    env,                    \* the env mapping handed to launch_job
    stdout_location,        \* optional location
    stderr_location,        \* optional location
    launched,               \* optional record of the launch_job call
    waited,                 \* optional record of the batch.wait call
    launch_result,          \* how launch_job ended, "none" before
    wait_result,            \* how batch.wait ended, "none" before
    pending,                \* exception in flight while the finally block runs
    events,                 \* calls made so far, in order
    outcome,                \* how the process ended, "running" before
    cmd                     \* state of one list / kill command (_execute_cmd)

step_vars == <<pc, input_paths, max_size, retry_count, node, declared, split_vars,
               kwargs_input_paths, minutes_between_retries, env, stdout_location,
               stderr_location, launched, waited, launch_result, wait_result,
               pending, events, outcome>>

vars == <<step_vars, cmd>>

\* what no action of the step command changes: its inputs, and the state of
\* the list / kill commands, which are separate invocations
inputs == <<input_paths, max_size, retry_count, declared, cmd>>

\* no list / kill command is running
CmdIdle == [pc |-> "idle"]

Ev(op, arg) == [op |-> op, arg |-> arg]
Count(op) == Cardinality({k \in 1..Len(events) : events[k].op = op})
Positions(op) == {k \in 1..Len(events) : events[k].op = op}

\* attempt argument recorded for a get_task_datastore call that passes none
NoAttempt == -1

Init ==
    /\ pc = "encode"
    /\ input_paths \in InputPathsChoices
    /\ max_size \in 1..MaxCeiling
    /\ retry_count \in 0..MaxRetry
    /\ node \in [retry : RetryDecoChoices, environment : EnvDecoChoices]
    /\ declared = node
    /\ split_vars = <<>>
    /\ kwargs_input_paths = input_paths
    /\ minutes_between_retries = <<>>
    /\ env = <<>>
    /\ stdout_location = <<>>
    /\ stderr_location = <<>>
    /\ launched = <<>>
    /\ waited = <<>>
    /\ launch_result = "none"
    /\ wait_result = "none"
    /\ pending = "none"
    /\ events = <<>>
    /\ outcome = "running"
    /\ cmd = CmdIdle

(* ------------------------------ the command ---------------------------- *)
\* lines 180-188: split input_paths into chunk variables
Encode ==
    /\ pc = "encode"
    /\ LET truthy == input_paths # <<>> /\ Len(input_paths[1]) > 0
           sv     == IF truthy THEN SplitVars(input_paths[1], max_size) ELSE <<>>
       IN  /\ split_vars' = sv
           /\ kwargs_input_paths' =
                 IF truthy THEN <<JoinPlaceholders(DictKeys(sv))>> ELSE input_paths
    /\ pc' = "retry_info"
    /\ UNCHANGED <<inputs, node, minutes_between_retries, env, stdout_location,
                   stderr_location, launched, waited, launch_result, wait_result,
                   pending, events, outcome>>

\* lines 196-203: read the retry decorator
RetryInfo ==
    /\ pc = "retry_info"
    /\ minutes_between_retries' =
          IF node.retry # <<>>
          THEN LET attr == node.retry[1].minutes_between_retries
               IN  <<IF attr # <<>> THEN attr[1] ELSE 1>>
          ELSE <<>>
    /\ pc' = "env"
    /\ UNCHANGED <<inputs, node, split_vars, kwargs_input_paths, env,
                   stdout_location, stderr_location, launched, waited,
                   launch_result, wait_result, pending, events, outcome>>

\* lines 220-228: env is the decorator's own vars dict (or a new one), and
\* env.update(split_vars) changes that dict in place
BuildEnvIgnoresDeco ==
    /\ pc = "env"
    /\ env' = split_vars
    /\ pc' = "backoff"
    /\ UNCHANGED <<inputs, node, split_vars, kwargs_input_paths, minutes_between_retries,
                   stdout_location, stderr_location, launched, waited,
                   launch_result, wait_result, pending, events, outcome>>
BuildEnv ==
    /\ pc = "env"
    /\ LET base == IF node.environment # <<>> THEN node.environment[1].vars ELSE <<>>
           e    == IF split_vars # <<>> THEN DictUpdate(base, split_vars) ELSE base
       IN  /\ env' = e
           /\ node' = IF node.environment # <<>>
                      THEN [node EXCEPT !.environment = <<[vars |-> e]>>]
                      ELSE node
    /\ pc' = "backoff"
    /\ UNCHANGED <<inputs, split_vars, kwargs_input_paths, minutes_between_retries,
                   stdout_location, stderr_location, launched, waited,
                   launch_result, wait_result, pending, events, outcome>>

\* the process ends: pc is "done" and the way it ended is recorded
Terminate(how, evs) ==
    /\ outcome' = how
    /\ events' = evs \o <<Ev("exit", 0)>>
    /\ pc' = "done"

\* the exit status that forbids an upstream retry (imported on line 27)
METAFLOW_EXIT_DISALLOW_RETRY == "METAFLOW_EXIT_DISALLOW_RETRY"

\* lines 230-234 when retry_count is falsy: nothing happens
SkipBackoff ==
    /\ pc = "backoff"
    /\ ~RetryTruthy(retry_count)
    /\ pc' = "resolve"
    /\ UNCHANGED <<inputs, node, split_vars, kwargs_input_paths,
                   minutes_between_retries, env, stdout_location, stderr_location,
                   launched, waited, launch_result, wait_result, pending, events,
                   outcome>>

\* lines 231-233: the notice; "%d" % None raises TypeError when the step has
\* no retry decorator (minutes_between_retries is still None)
Notice ==
    /\ pc = "backoff"
    /\ RetryTruthy(retry_count)
    /\ IF minutes_between_retries = <<>>
       THEN Terminate("TypeError", events)
       ELSE /\ events' = Append(events, Ev("notice", minutes_between_retries[1]))
            /\ pc' = "sleep"
            /\ UNCHANGED outcome
    /\ UNCHANGED <<inputs, node, split_vars, kwargs_input_paths,
                   minutes_between_retries, env, stdout_location, stderr_location,
                   launched, waited, launch_result, wait_result, pending>>

\* line 234: time.sleep(minutes_between_retries * 60) returns after that long
Sleep ==
    /\ pc = "sleep"
    /\ events' = Append(events, Ev("sleep", SleepSeconds(minutes_between_retries[1])))
    /\ pc' = "resolve"
    /\ UNCHANGED <<inputs, node, split_vars, kwargs_input_paths,
                   minutes_between_retries, env, stdout_location, stderr_location,
                   launched, waited, launch_result, wait_result, pending, outcome>>

\* ds.get_log_location(TASK_LOG_SOURCE, stream) of the datastore of an attempt
LogLocation(attempt, stream) == [attempt |-> attempt, stream |-> stream]

\* lines 236-245: the task datastore of this attempt and its two log locations
ResolveLogsSameStream ==
    /\ pc = "resolve"
    /\ stdout_location' = <<LogLocation(retry_count, "stdout")>>
    /\ stderr_location' = <<LogLocation(retry_count, "stdout")>>
    /\ events' = events \o <<Ev("get_task_datastore", retry_count),
                             Ev("get_log_location", retry_count),
                             Ev("get_log_location", retry_count)>>
    /\ pc' = "launch"
    /\ UNCHANGED <<inputs, node, split_vars, kwargs_input_paths,
                   minutes_between_retries, env, launched, waited, launch_result,
                   wait_result, pending, outcome>>
ResolveLogs ==
    /\ pc = "resolve"
    /\ stdout_location' = <<LogLocation(retry_count, "stdout")>>
    /\ stderr_location' = <<LogLocation(retry_count, "stderr")>>
    /\ events' = events \o <<Ev("get_task_datastore", retry_count),
                             Ev("get_log_location", retry_count),
                             Ev("get_log_location", retry_count)>>
    /\ pc' = "launch"
    /\ UNCHANGED <<inputs, node, split_vars, kwargs_input_paths,
                   minutes_between_retries, env, launched, waited, launch_result,
                   wait_result, pending, outcome>>

\* lines 248-274: launch_job returns, raises an Exception (caught on line 274)
\* or raises a BaseException that is no Exception (KeyboardInterrupt,
\* SystemExit), which no handler of step catches.  AfterLaunch is where
\* control goes when launch_job returned ("ok": the try of line 283) or
\* raised an Exception (the handler of line 274).
AfterLaunchSyncFirst(r) == IF r = "ok" THEN "finally" ELSE "except_launch"
AfterLaunch(r) == IF r = "ok" THEN "wait" ELSE "except_launch"

LaunchJob ==
    /\ pc = "launch"
    /\ launched' = <<[attempt |-> retry_count, env |-> env,
                      input_paths |-> kwargs_input_paths]>>
    /\ \E r \in LaunchResults :
          /\ launch_result' = r
          /\ CASE r \in {"ok", "Exception"} ->
                    /\ events' = Append(events, Ev("launch_job", retry_count))
                    /\ pc' = AfterLaunch(r)
                    /\ UNCHANGED outcome
               [] r = "BaseException" ->
                    Terminate("LaunchBaseException",
                              Append(events, Ev("launch_job", retry_count)))
    /\ UNCHANGED <<inputs, node, split_vars, kwargs_input_paths,
                   minutes_between_retries, env, stdout_location, stderr_location,
                   waited, wait_result, pending>>

\* the two sync sites (lines 276-280 and 290-295): the task datastore is looked
\* up without an attempt and handed to sync_local_metadata_from_datastore
SyncSite == <<Ev("get_task_datastore", NoAttempt), Ev("sync", 0)>>

\* lines 275-280: the handler of a failed submission prints the error and
\* syncs; an exception of the sync leaves the handler before line 282
SubmitFailedSync ==
    /\ pc = "except_launch"
    /\ \E sync_ok \in BOOLEAN :
          IF sync_ok
          THEN /\ events' = events \o <<Ev("print", 0)>> \o SyncSite
               /\ pc' = "exit_launch"
               /\ UNCHANGED outcome
          ELSE Terminate("SyncError", events \o <<Ev("print", 0)>> \o SyncSite)
    /\ UNCHANGED <<inputs, node, split_vars, kwargs_input_paths,
                   minutes_between_retries, env, stdout_location, stderr_location,
                   launched, waited, launch_result, wait_result, pending>>

\* line 282: sys.exit(METAFLOW_EXIT_DISALLOW_RETRY) outside the second try
SubmitFailedFallThrough ==
    /\ pc = "exit_launch"
    /\ pc' = "wait"
    /\ UNCHANGED <<inputs, node, split_vars, kwargs_input_paths,
                   minutes_between_retries, env, stdout_location, stderr_location,
                   launched, waited, launch_result, wait_result, pending, events,
                   outcome>>
SubmitFailedExit ==
    /\ pc = "exit_launch"
    /\ Terminate(METAFLOW_EXIT_DISALLOW_RETRY, Append(events, Ev("sys.exit", 0)))
    /\ UNCHANGED <<inputs, node, split_vars, kwargs_input_paths,
                   minutes_between_retries, env, stdout_location, stderr_location,
                   launched, waited, launch_result, wait_result, pending>>

\* lines 283-285: batch.wait returns or raises; only BatchKilledException has
\* a handler, every other exception stays in flight while finally runs
\* batch.wait relays the log lines through the echo callback of lines
\* 164-168; an exception of the callback ends the wait with a failure
WaitEndsWith(echo_raised, r) == echo_raised => r # "ok"

Wait ==
    /\ pc = "wait"
    /\ waited' = <<[stdout |-> stdout_location, stderr |-> stderr_location]>>
    /\ \E r \in WaitResults, echo_raised \in BOOLEAN :
          /\ WaitEndsWith(echo_raised, r)
          /\ events' = events
                       \o (IF echo_raised THEN <<Ev("echo_raised", 0)>> ELSE <<>>)
                       \o <<Ev("wait", 0)>>
          /\ wait_result' = r
          /\ CASE r = "ok" -> pending' = "none" /\ pc' = "finally"
               [] r = "BatchKilledException" -> pending' = "none" /\ pc' = "except_killed"
               [] r = "Exception" -> pending' = "WaitException" /\ pc' = "finally"
               [] r = "BaseException" -> pending' = "WaitBaseException" /\ pc' = "finally"
    /\ UNCHANGED <<inputs, node, split_vars, kwargs_input_paths,
                   minutes_between_retries, env, stdout_location, stderr_location,
                   launched, launch_result, outcome>>

\* lines 286-288: the trace is printed and sys.exit raises SystemExit, which
\* stays in flight while finally runs
KilledHandler ==
    /\ pc = "except_killed"
    /\ events' = events \o <<Ev("print_exc", 0), Ev("sys.exit", 0)>>
    /\ pending' = "SystemExit"
    /\ pc' = "finally"
    /\ UNCHANGED <<inputs, node, split_vars, kwargs_input_paths,
                   minutes_between_retries, env, stdout_location, stderr_location,
                   launched, waited, launch_result, wait_result, outcome>>

\* lines 289-295: the finally block; an exception raised in it replaces the
\* one in flight
FinallySyncOnReturnOnly ==
    /\ pc = "finally"
    /\ \E sync_ok \in BOOLEAN :
          IF pending # "none"
          THEN /\ pc' = "unwind"
               /\ UNCHANGED <<events, outcome>>
          ELSE IF sync_ok
          THEN /\ events' = events \o SyncSite
               /\ pc' = "unwind"
               /\ UNCHANGED outcome
          ELSE Terminate("SyncError", events \o SyncSite)
    /\ UNCHANGED <<inputs, node, split_vars, kwargs_input_paths,
                   minutes_between_retries, env, stdout_location, stderr_location,
                   launched, waited, launch_result, wait_result, pending>>
FinallySync ==
    /\ pc = "finally"
    /\ \E sync_ok \in BOOLEAN :
          IF sync_ok
          THEN /\ events' = events \o SyncSite
               /\ pc' = "unwind"
               /\ UNCHANGED outcome
          ELSE Terminate("SyncError", events \o SyncSite)
    /\ UNCHANGED <<inputs, node, split_vars, kwargs_input_paths,
                   minutes_between_retries, env, stdout_location, stderr_location,
                   launched, waited, launch_result, wait_result, pending>>

\* what leaves the try statement once finally has completed
Unwound(p) ==
    CASE p = "none" -> "Return"
      [] p = "SystemExit" -> METAFLOW_EXIT_DISALLOW_RETRY
      [] p = "WaitException" -> "WaitException"
      [] p = "WaitBaseException" -> "WaitBaseException"

Unwind ==
    /\ pc = "unwind"
    /\ Terminate(Unwound(pending), events)
    /\ UNCHANGED <<inputs, node, split_vars, kwargs_input_paths,
                   minutes_between_retries, env, stdout_location, stderr_location,
                   launched, waited, launch_result, wait_result, pending>>

Next ==
    \/ Encode
    \/ RetryInfo
    \/ BuildEnv
    \/ SkipBackoff
    \/ Notice
    \/ Sleep
    \/ ResolveLogs
    \/ LaunchJob
    \/ SubmitFailedSync
    \/ SubmitFailedExit
    \/ Wait
    \/ KilledHandler
    \/ FinallySync
    \/ Unwind

Spec == Init /\ [][Next]_vars

(* ------------------- the list and kill commands ------------------------ *)
\* Python truthiness of an optional string: None and "" are falsy
Truthy(o) == o # <<>> /\ o[1] # ""

\* values of --run-id and --user (click default None)
RunIdChoices == { <<>>, <<"">>, <<"r1">> }
UserChoices == { <<>>, <<"">>, <<"u1">> }
\* what util.get_latest_run_id(echo, flow_name) returns: None or a run id
LatestRunIdChoices == { <<>>, <<"r9">> }
\* what util.get_username() returns: the name of the current user
GetUsername == <<"me">>

\* the step command is not running
StepIdle ==
    /\ pc = "idle"
    /\ input_paths = <<>>
    /\ max_size = 1
    /\ retry_count = 0
    /\ node = [retry |-> <<>>, environment |-> <<>>]
    /\ declared = node
    /\ split_vars = <<>>
    /\ kwargs_input_paths = <<>>
    /\ minutes_between_retries = <<>>
    /\ env = <<>>
    /\ stdout_location = <<>>
    /\ stderr_location = <<>>
    /\ launched = <<>>
    /\ waited = <<>>
    /\ launch_result = "none"
    /\ wait_result = "none"
    /\ pending = "none"
    /\ events = <<>>
    /\ outcome = "running"

\* a list or kill command line has been parsed (lines 66-74, 81-89)
CmdInit ==
    /\ StepIdle
    /\ \E r \in RunIdChoices, u \in UserChoices, m \in BOOLEAN, l \in LatestRunIdChoices :
          cmd = [pc |-> "start", func |-> "none",
                 arg_run_id |-> r, arg_user |-> u, my_runs |-> m,
                 run_id |-> r, user |-> u, latest_run |-> TRUE,
                 latest_found |-> l, lookups |-> 0, calls |-> <<>>,
                 raised |-> "none"]

\* lines 74-78: list hands batch.list_jobs to _execute_cmd
List ==
    /\ cmd.pc = "start"
    /\ cmd' = [cmd EXCEPT !.func = "list_jobs", !.pc = "check_user"]
    /\ UNCHANGED step_vars

\* lines 89-93: kill hands batch.kill_jobs to _execute_cmd
Kill ==
    /\ cmd.pc = "start"
    /\ cmd' = [cmd EXCEPT !.func = "kill_jobs", !.pc = "check_user"]
    /\ UNCHANGED step_vars

\* lines 44-45
CheckUserMyRuns ==
    /\ cmd.pc = "check_user"
    /\ cmd' = IF Truthy(cmd.user) /\ cmd.my_runs
              THEN [cmd EXCEPT !.raised = "CommandException", !.pc = "done"]
              ELSE [cmd EXCEPT !.pc = "check_run_id"]
    /\ UNCHANGED step_vars

\* lines 47-48
CheckRunIdMyRuns ==
    /\ cmd.pc = "check_run_id"
    /\ cmd' = IF Truthy(cmd.run_id) /\ cmd.my_runs
              THEN [cmd EXCEPT !.raised = "CommandException", !.pc = "done"]
              ELSE [cmd EXCEPT !.pc = "set_user"]
    /\ UNCHANGED step_vars

\* lines 50-51
SetUserSkipped ==
    /\ cmd.pc = "set_user"
    /\ cmd' = [cmd EXCEPT !.pc = "latest_run"]
    /\ UNCHANGED step_vars
SetUser ==
    /\ cmd.pc = "set_user"
    /\ cmd' = [cmd EXCEPT !.user = IF cmd.my_runs THEN GetUsername ELSE @,
                          !.pc = "latest_run"]
    /\ UNCHANGED step_vars

\* lines 53-56
SetLatestRun ==
    /\ cmd.pc = "latest_run"
    /\ cmd' = [cmd EXCEPT !.latest_run = ~(Truthy(cmd.user) /\ ~Truthy(cmd.run_id)),
                          !.pc = "lookup"]
    /\ UNCHANGED step_vars

\* lines 58-61
LookupLatestRun ==
    /\ cmd.pc = "lookup"
    /\ cmd' = IF ~Truthy(cmd.run_id) /\ cmd.latest_run
              THEN IF cmd.latest_found = <<>>
                   THEN [cmd EXCEPT !.run_id = cmd.latest_found,
                                    !.lookups = @ + 1,
                                    !.raised = "CommandException", !.pc = "done"]
                   ELSE [cmd EXCEPT !.run_id = cmd.latest_found,
                                    !.lookups = @ + 1, !.pc = "call"]
              ELSE [cmd EXCEPT !.pc = "call"]
    /\ UNCHANGED step_vars

\* line 63: func(flow_name, run_id, user, echo)
CallFunc ==
    /\ cmd.pc = "call"
    /\ cmd' = [cmd EXCEPT !.calls = Append(@, [func |-> cmd.func,
                                               run_id |-> cmd.run_id,
                                               user |-> cmd.user]),
                          !.pc = "done"]
    /\ UNCHANGED step_vars

CmdNext ==
    \/ List
    \/ Kill
    \/ CheckUserMyRuns
    \/ CheckRunIdMyRuns
    \/ SetUser
    \/ SetLatestRun
    \/ LookupLatestRun
    \/ CallFunc

CmdSpec == CmdInit /\ [][CmdNext]_vars

(* ======================= properties of the command ===================== *)
First(op) == CHOOSE k \in Positions(op) : \A j \in Positions(op) : k <= j

InputTruthy == input_paths # <<>> /\ Len(input_paths[1]) > 0
Ceil(a, b) == (a + b - 1) \div b

\* the execution ended by one of the four exit paths of launch and wait
SubmissionFailed == launch_result = "Exception"
Killed == launch_result = "ok" /\ wait_result = "BatchKilledException"
OtherFailure == launch_result = "ok" /\ wait_result \in {"Exception", "BaseException"}
Success == launch_result = "ok" /\ wait_result = "ok"
FourPaths == SubmissionFailed \/ Killed \/ OtherFailure \/ Success

C2_SubmitFailureDisallowsRetry ==
    /\ Count("launch_job") <= 1
    /\ (pc = "done" /\ SubmissionFailed) =>
          /\ Count("launch_job") = 1
          /\ Count("wait") = 0
          /\ Count("sync") = 1
          /\ outcome = METAFLOW_EXIT_DISALLOW_RETRY

\* C3: when batch.wait raises BatchKilledException, the trace is printed,
\* then the sync runs once, then the process ends, and it ends with
\* METAFLOW_EXIT_DISALLOW_RETRY.
C3_KilledDisallowsRetry ==
    (pc = "done" /\ Killed) =>
        /\ Count("print_exc") = 1
        /\ Count("sync") = 1
        /\ First("print_exc") < First("sync")
        /\ First("sync") < First("exit")
        /\ outcome = METAFLOW_EXIT_DISALLOW_RETRY

\* the exit signal of each primary outcome when the sync succeeds
PrimaryOutcome ==
    CASE SubmissionFailed -> METAFLOW_EXIT_DISALLOW_RETRY
      [] Killed -> METAFLOW_EXIT_DISALLOW_RETRY
      [] launch_result = "ok" /\ wait_result = "Exception" -> "WaitException"
      [] launch_result = "ok" /\ wait_result = "BaseException" -> "WaitBaseException"
      [] Success -> "Return"

\* C4: a failure of the metadata sync never changes the outcome: on each of
\* the four exit paths the process ends with the exit signal of that path,
\* whether the sync succeeded or raised.
C4_SyncFailureKeepsOutcome ==
    (pc = "done" /\ FourPaths) => outcome = PrimaryOutcome

DeclaresMinutes ==
    declared.retry # <<>> /\ declared.retry[1].minutes_between_retries # <<>>
DeclaredMinutes == declared.retry[1].minutes_between_retries[1]

\* C5: for retry_count > 0 and a retry policy of m minutes, by the time
\* launch_job is called one notice for m minutes has been emitted, followed
\* by one sleep of exactly m * 60 seconds, both before the call; for
\* retry_count = 0 there is never a notice nor a sleep.
C5_BackoffBeforeSubmit ==
    /\ retry_count = 0 => (Count("notice") = 0 /\ Count("sleep") = 0)
    /\ (retry_count > 0 /\ DeclaresMinutes /\ launched # <<>>) =>
          /\ Count("notice") = 1
          /\ Count("sleep") = 1
          /\ events[First("notice")].arg = DeclaredMinutes
          /\ events[First("sleep")].arg = DeclaredMinutes * 60
          /\ First("notice") < First("sleep")
          /\ First("sleep") < First("launch_job")

C5_Witness ==
    /\ retry_count = 2
    /\ DeclaresMinutes
    /\ DeclaredMinutes = 3
    /\ launched # <<>>
    /\ Count("sleep") = 1
    /\ events[First("sleep")].arg = 180

\* the inter-retry delay is unspecified: no attribute or no retry decorator
DelayUnspecified ==
    \/ declared.retry = <<>>
    \/ declared.retry[1].minutes_between_retries = <<>>

\* C6: for retry_count > 0 and an unspecified delay (retry decorator without
\* minutes_between_retries, or no retry decorator) the command sleeps 60
\* seconds and then calls launch_job.
C6_DefaultDelayOneMinute ==
    (pc = "done" /\ retry_count > 0 /\ DelayUnspecified) =>
        /\ Count("sleep") = 1
        /\ events[First("sleep")].arg = 60
        /\ Count("launch_job") = 1
        /\ First("sleep") < First("launch_job")

\* C7: for a non-empty input_paths s and ceiling c, the chunk values
\* concatenated in the order of the mapping are s, there are ceil(len(s)/c)
\* chunk variables, and the expression put into kwargs['input_paths'] expands
\* to s against the environment passed to launch_job.
C7_ChunksRoundTrip ==
    /\ (pc # "encode" /\ InputTruthy) =>
          /\ ConcatValues(split_vars) = input_paths[1]
          /\ Len(split_vars) = Ceil(Len(input_paths[1]), max_size)
    /\ (launched # <<>> /\ InputTruthy) =>
          Expand(launched[1].input_paths[1], launched[1].env) = input_paths[1]

C7_Witness ==
    /\ launched # <<>>
    /\ InputTruthy
    /\ input_paths[1] = <<"a", "b", "a">>
    /\ max_size = 2
    /\ Len(split_vars) = 2
    /\ declared.environment # <<>>
    /\ DictHas(declared.environment[1].vars, PathsKey(0))

\* "${METAFLOW_INPUT_PATHS_0}...${METAFLOW_INPUT_PATHS_(n-1)}"
RECURSIVE PlaceholdersUpTo(_)
PlaceholdersUpTo(n) ==
    IF n = 0 THEN <<>>
    ELSE PlaceholdersUpTo(n - 1) \o <<"$", "{">> \o PREFIX \o FormatD(n - 1) \o <<"}">>

\* C8: for input_paths of length L > 0 and ceiling c the keys are
\* METAFLOW_INPUT_PATHS_0 .. METAFLOW_INPUT_PATHS_(n-1), n = ceil(L/c), all
\* different; every chunk but the last has size c, the last has size
\* L - (n-1)*c, between 1 and c; the expression names the keys in
\* increasing index order.
C8_ChunkLayout ==
    (pc # "encode" /\ InputTruthy) =>
        LET L == Len(input_paths[1])
            n == Ceil(L, max_size)
        IN  /\ Len(split_vars) = n
            /\ \A k \in 1..n : split_vars[k][1] = PREFIX \o FormatD(k - 1)
            /\ Cardinality(DictKeySet(split_vars)) = n
            /\ \A k \in 1..(n - 1) : Len(split_vars[k][2]) = max_size
            /\ Len(split_vars[n][2]) = L - (n - 1) * max_size
            /\ Len(split_vars[n][2]) \in 1..max_size
            /\ kwargs_input_paths = <<PlaceholdersUpTo(n)>>

C8_Witness ==
    /\ pc = "done"
    /\ InputTruthy
    /\ Len(input_paths[1]) = 3
    /\ max_size = 2
    /\ Len(split_vars) = 2
    /\ Len(split_vars[1][2]) = 2
    /\ Len(split_vars[2][2]) = 1

DeclaredVars ==
    IF declared.environment # <<>> THEN declared.environment[1].vars ELSE <<>>

\* C9: the environment passed to launch_job holds every declared variable
\* with its declared value and every chunk variable with its chunk value;
\* chunk variables never replace the value of a declared variable, also
\* when the names collide.
C9_DeclaredNeverReplaced ==
    launched # <<>> =>
        /\ \A k \in 1..Len(DeclaredVars) :
              /\ DictHas(launched[1].env, DeclaredVars[k][1])
              /\ DictGet(launched[1].env, DeclaredVars[k][1]) = DeclaredVars[k][2]
        /\ \A k \in 1..Len(split_vars) :
              /\ DictHas(launched[1].env, split_vars[k][1])
              /\ DictGet(launched[1].env, split_vars[k][1]) = split_vars[k][2]

\* C9 (amended): the environment passed to launch_job holds exactly the
\* declared names and the chunk names; every chunk variable has its chunk
\* value and every declared variable whose name is not a chunk name has its
\* declared value (a declared variable named like a chunk variable is
\* replaced by the chunk).
C9_EnvAugmented ==
    launched # <<>> =>
        /\ DictKeySet(launched[1].env) = DictKeySet(DeclaredVars) \cup DictKeySet(split_vars)
        /\ Cardinality(DictKeySet(launched[1].env)) = Len(launched[1].env)
        /\ \A k \in 1..Len(split_vars) :
              DictGet(launched[1].env, split_vars[k][1]) = split_vars[k][2]
        /\ \A k \in 1..Len(DeclaredVars) :
              ~DictHas(split_vars, DeclaredVars[k][1]) =>
                  DictGet(launched[1].env, DeclaredVars[k][1]) = DeclaredVars[k][2]

C9_Witness ==
    /\ launched # <<>>
    /\ Len(split_vars) = 2
    /\ DictHas(DeclaredVars, FOO)
    /\ DictHas(DeclaredVars, PathsKey(1))
    /\ DictGet(launched[1].env, FOO) = <<"a">>
    /\ DictGet(launched[1].env, PathsKey(1)) # <<"b", "b">>

\* C10: every execution that has ended has called the metadata sync at
\* least once before the process exited.
C10_SyncBeforeEveryExit ==
    pc = "done" => (Count("sync") >= 1 /\ First("sync") < First("exit"))

\* C11: when batch.wait raises an exception other than BatchKilledException,
\* the sync runs once, no trace is printed, sys.exit is not called, and the
\* process ends with that same exception.
C11_OtherFailurePropagates ==
    (pc = "done" /\ OtherFailure) =>
        /\ Count("sync") = 1
        /\ Count("print_exc") = 0
        /\ Count("sys.exit") = 0
        /\ outcome = (IF wait_result = "Exception" THEN "WaitException"
                      ELSE "WaitBaseException")

\* C12: when input_paths is empty or absent there are no chunk variables,
\* kwargs['input_paths'] is left as it was (no ${...} placeholder), and the
\* environment passed to launch_job is the declared environment, empty when
\* none is declared.
C12_NoInputPaths ==
    (~InputTruthy /\ pc # "encode") =>
        /\ split_vars = <<>>
        /\ kwargs_input_paths = input_paths
        /\ kwargs_input_paths # <<>> => IndexOf(kwargs_input_paths[1], "$", 1) = 0
        /\ launched # <<>> =>
              /\ launched[1].env = DeclaredVars
              /\ launched[1].input_paths = input_paths
              /\ declared.environment = <<>> => launched[1].env = <<>>

C12_Witness ==
    /\ launched # <<>>
    /\ input_paths = << <<>> >>
    /\ DictHas(DeclaredVars, FOO)
    /\ launched[1].env = DeclaredVars

\* C13: the step command only reads the step definition: the declared
\* environment variables and the declared retry policy hold, at every point
\* of the execution and after it, the values they held before.
C13_StepDefinitionReadOnly ==
    /\ node.retry = declared.retry
    /\ node.environment = declared.environment

\* C14: the sync never runs before launch_job has returned or raised, and
\* after a successful launch_job it never runs before batch.wait has
\* returned or raised.
C14_SyncAfterTerminalOutcome ==
    \A k \in Positions("sync") :
        /\ launch_result # "none"
        /\ \E j \in Positions("launch_job") : j < k
        /\ launch_result = "ok" =>
              /\ wait_result # "none"
              /\ \E j \in Positions("wait") : j < k

C14_Witness ==
    /\ Count("sync") = 1
    /\ launch_result = "ok"
    /\ wait_result = "ok"
    /\ First("launch_job") < First("wait")
    /\ First("wait") < First("sync")

C16_SyncLookupUsesAttempt ==
    \A k \in Positions("get_task_datastore") :
        /\ events[k].arg = retry_count
        /\ launched # <<>> => events[k].arg = launched[1].attempt

\* C17: whenever launch_job has been called, the stdout and the stderr
\* location of this attempt were resolved before the call, and batch.wait is
\* handed exactly these two locations.
C17_LogLocationsBeforeLaunch ==
    /\ launched # <<>> =>
          /\ stdout_location = <<[attempt |-> retry_count, stream |-> "stdout"]>>
          /\ stderr_location = <<[attempt |-> retry_count, stream |-> "stderr"]>>
          /\ Count("get_log_location") = 2
          /\ \A k \in Positions("get_log_location") : k < First("launch_job")
    /\ waited # <<>> =>
          /\ waited[1].stdout = <<[attempt |-> launched[1].attempt, stream |-> "stdout"]>>
          /\ waited[1].stderr = <<[attempt |-> launched[1].attempt, stream |-> "stderr"]>>
          /\ waited[1].stdout = stdout_location
          /\ waited[1].stderr = stderr_location

C17_Witness ==
    /\ waited # <<>>
    /\ retry_count = 2
    /\ waited[1].stdout = <<[attempt |-> 2, stream |-> "stdout"]>>
    /\ waited[1].stderr = <<[attempt |-> 2, stream |-> "stderr"]>>

\* C18: _execute_cmd either raises CommandException without calling func or
\* calls func exactly once; it raises exactly when user and my_runs are both
\* given, or run_id and my_runs are both given, or none of the three is given
\* and no latest run id is found; the latest run id is looked up only when
\* none of the three is given; with my_runs alone func receives the current
\* username and no run id.
C18_ExecuteCmd ==
    LET given_run_id == Truthy(cmd.arg_run_id)
        given_user   == Truthy(cmd.arg_user)
        none_given   == ~given_run_id /\ ~given_user /\ ~cmd.my_runs
        must_raise   == \/ given_user /\ cmd.my_runs
                        \/ given_run_id /\ cmd.my_runs
                        \/ none_given /\ cmd.latest_found = <<>>
    IN  cmd.pc # "idle" =>
          /\ Len(cmd.calls) <= 1
          /\ cmd.lookups <= 1
          /\ cmd.lookups > 0 => none_given
          /\ cmd.raised # "none" => (must_raise /\ cmd.calls = <<>>)
          /\ cmd.pc = "done" =>
                /\ cmd.raised \in {"none", "CommandException"}
                /\ cmd.raised = "CommandException" <=> must_raise
                /\ cmd.raised = "none" <=> Len(cmd.calls) = 1
                /\ none_given => cmd.lookups = 1
                /\ cmd.raised = "none" =>
                      /\ cmd.calls[1].func = cmd.func
                      /\ given_run_id => cmd.calls[1].run_id = cmd.arg_run_id
                      /\ (cmd.my_runs /\ ~given_run_id /\ ~given_user) =>
                            /\ cmd.calls[1].user = <<"me">>
                            /\ ~Truthy(cmd.calls[1].run_id)

C18_Witness ==
    /\ cmd.pc = "done"
    /\ cmd.my_runs
    /\ cmd.arg_run_id = <<>>
    /\ cmd.arg_user = <<>>
    /\ Len(cmd.calls) = 1
    /\ cmd.calls[1] = [func |-> "kill_jobs", run_id |-> <<>>, user |-> <<"me">>]
    /\ cmd.lookups = 0

====
